---- MODULE Spec2Model ----
(***************************************************************************)
(* Model of src/apis/main.py: a FastAPI service over three SQLite tables   *)
(* (departments, users, salaries) with bcrypt password hashing, HS256      *)
(* bearer tokens and the get_current_user guard.                           *)
(*                                                                         *)
(* Requests run concurrently (FastAPI runs "def" handlers on a thread      *)
(* pool).  Every request is a small process: its dependencies are          *)
(* resolved, the guard runs, the handler body runs one database            *)
(* round-trip per step, the response is produced and get_db's finally      *)
(* closes the session.                                                     *)
(***************************************************************************)
EXTENDS Integers, Sequences, FiniteSets, TLC

(***************************************************************************)
(* Bounds of the model.                                                    *)
(***************************************************************************)
\* number of requests a behaviour may start
MaxRequests == 3
\* last clock tick
MaxNow == 4
\* rows the departments / salaries tables may grow to
MaxDepartments == 1
MaxSalaries == 2
\* clock ticks per second: datetime.utcnow() has sub-second resolution
TicksPerSecond == 2
\* timedelta(minutes=ACCESS_TOKEN_EXPIRE_MINUTES) is a whole number of
\* seconds (30 * 60, main.py:16,87); the model keeps a whole number of
\* seconds and scales it down
ExpireSeconds == 1

\* request slots (threads of the pool)
Req == {"r1", "r2"}

Usernames == {"alice", "bob"}
\* passwords a client may try at login, and those it may register with
Passwords == {"pw1", "pw2"}
RegPasswords == {"pw1"}
Salts == {"s1"}
Amounts == {100}
DeptNames == {"eng"}
Locations == {"hq"}

\* SQL NULL / Python None for an optional integer
Null == -999
\* department_id values a client may send
DeptIdInputs == {Null, -1, 0, 1}
\* user ids a client may send
UserIdInputs == {1, 2}

\* seconds in a day (datetime.date)
SecondsPerDay == 86400
\* JSON null in a response where a name is expected
NoneName == "<null>"

\* the "sub" claim is absent from the payload
NoSub == "<no-sub>"
\* the "exp" claim is absent from the payload
NoExp == -1

SECRET_KEY == "supersecretkey"
OtherKey == "guessedkey"

VARIABLES
    departments,   \* table departments: sequence of rows, id = position
    users,         \* table users
    salaries,      \* table salaries
    now,           \* the clock, in ticks
    issued,        \* history: tokens returned by login, with the tick of issue
    started,       \* history: number of requests started
    pc,            \* per request: where it is
    rq,            \* per request: operation and its inputs
    token,         \* per request: the bearer token the guard is given
    session,       \* per request: the SQLAlchemy session of get_db
    current_user,  \* per request: the user the guard injected
    held,          \* history, per register request: username taken when called
    resp           \* per request: the response produced

vars == <<departments, users, salaries, now, issued, started,
          pc, rq, token, session, current_user, held, resp>>

tables == <<departments, users, salaries>>


(***************************************************************************)
(* Tables.  SQLite assigns INTEGER PRIMARY KEY ids 1, 2, ... and no row is *)
(* ever deleted, so a row's id is its position in the sequence.            *)
(***************************************************************************)
Range(s) == {s[i] : i \in 1..Len(s)}

\* db.query(Department).filter(Department.id == id).first()
DepartmentById(id) == {d \in Range(departments) : d.id = id}

\* db.query(User).filter(User.username == name).first()
UserByUsername(name) == {u \in Range(users) : u.username = name}

\* db.query(User).filter(User.id == id).first()
UserById(id) == {u \in Range(users) : u.id = id}

\* Python truthiness of an optional integer: None and 0 are falsy
Truthy(x) == x # Null /\ x # 0

(***************************************************************************)
(* Passwords.  bcrypt_sha256 stores the salt beside the digest; the digest *)
(* is modelled as an ideal one-way function of (salt, plaintext).          *)
(***************************************************************************)
Digest(salt, plain) == <<"bcrypt_sha256", salt, plain>>

\* pwd_context.hash(password) with the salt the call drew
hash_password(password, salt) == [salt |-> salt, digest |-> Digest(salt, password)]

\* pwd_context.verify(plain, hashed)
verify_password(plain, hashed) == Digest(hashed.salt, plain) = hashed.digest

(***************************************************************************)
(* Tokens.  A JWT is its payload and an HS256 signature over the payload;  *)
(* the signature is an ideal MAC: it names the key and the signed payload. *)
(***************************************************************************)
\* timegm(dt.utctimetuple()): a datetime truncated to whole seconds
Sec(t) == t \div TicksPerSecond

Sign(key, sub, exp) == [key |-> key, sub |-> sub, exp |-> exp]

\* jwt.encode(claims, key): a datetime "exp" becomes an integer of seconds
JwtEncode(sub, expire, key) ==
    LET exp == IF expire = NoExp THEN NoExp ELSE Sec(expire)
    IN  [kind |-> "jwt", sub |-> sub, exp |-> exp, sig |-> Sign(key, sub, exp)]

\* create_access_token that leaves "sub" out of the payload
create_access_token_NoSub(sub, t) ==
    JwtEncode(NoSub, t + ExpireSeconds * TicksPerSecond, SECRET_KEY)

\* create_access_token that stamps "exp" with the time of issue
create_access_token_NoTtl(sub, t) == JwtEncode(sub, t, SECRET_KEY)

\* create_access_token(data={"sub": sub}) called at tick t
create_access_token(sub, t) ==
    LET expire == t + ExpireSeconds * TicksPerSecond
    IN  JwtEncode(sub, expire, SECRET_KEY)

\* the header carries no bearer token / carries text that is no JWT
NoToken == [kind |-> "none", sub |-> NoSub, exp |-> NoExp,
            sig |-> Sign("", NoSub, NoExp)]
Malformed == [kind |-> "garbage", sub |-> NoSub, exp |-> NoExp,
              sig |-> Sign("", NoSub, NoExp)]

\* jwt.decode with the signature check switched off
JwtDecodeOk_NoSignature(tok, key, t) ==
    /\ tok.kind = "jwt"
    /\ ~(tok.exp # NoExp /\ tok.exp < Sec(t))

\* jwt.decode that rejects a token in the second of its "exp" already
JwtDecodeOk_ExpiresEarly(tok, key, t) ==
    /\ tok.kind = "jwt"
    /\ tok.sig = Sign(key, tok.sub, tok.exp)
    /\ ~(tok.exp # NoExp /\ tok.exp <= Sec(t))

\* jwt.decode(token, SECRET_KEY, algorithms=[ALGORITHM]) at tick t:
\* JWTError unless the text is a JWT, the signature is the MAC of the
\* payload under the key, and "exp", when present, is not before the clock
JwtDecodeOk(tok, key, t) ==
    /\ tok.kind = "jwt"
    /\ tok.sig = Sign(key, tok.sub, tok.exp)
    /\ ~(tok.exp # NoExp /\ tok.exp < Sec(t))

(***************************************************************************)
(* Responses.                                                              *)
(***************************************************************************)
NoResp == [status |-> 0, detail |-> "", body |-> <<>>]

\* raise HTTPException(status_code=status, detail=detail)
HTTPException(status, detail) == [status |-> status, detail |-> detail, body |-> <<>>]

\* a handler returned body
Ok(body) == [status |-> 200, detail |-> "", body |-> body]

\* an exception no handler catches: Starlette answers 500
InternalServerError == [status |-> 500, detail |-> "Internal Server Error", body |-> <<>>]

\* response_model=DepartmentResponse / UserResponse (orm_mode)
DepartmentResponse(d) == [id |-> d.id, name |-> d.name, location |-> d.location]
\* a UserResponse schema that declares hashed_password too
UserResponse_WithHash(u) == [id |-> u.id, username |-> u.username,
                             department_id |-> u.department_id,
                             hashed_password |-> u.hashed_password]

UserResponse(u) == [id |-> u.id, username |-> u.username, department_id |-> u.department_id]

(***************************************************************************)
(* Requests.                                                               *)
(***************************************************************************)
NoRq == [op |-> "none", username |-> "", password |-> "",
         department_id |-> Null, user_id |-> Null, amount |-> 0,
         name |-> "", location |-> ""]

RegisterRq(u, p, d) == [NoRq EXCEPT !.op = "register", !.username = u,
                                    !.password = p, !.department_id = d]
LoginRq(u, p) == [NoRq EXCEPT !.op = "login", !.username = u, !.password = p]

ProtectedRqs ==
    {[NoRq EXCEPT !.op = o] : o \in {"get_departments", "get_users"}}
    \cup {[NoRq EXCEPT !.op = "create_department", !.name = n, !.location = l] :
            n \in DeptNames, l \in Locations}
    \cup {[NoRq EXCEPT !.op = "add_salary", !.user_id = i, !.amount = a] :
            i \in UserIdInputs, a \in Amounts}
    \cup {[NoRq EXCEPT !.op = "get_user_details", !.user_id = i] :
            i \in UserIdInputs}

\* where the handler body of an operation starts
BodyPc(op) ==
    CASE op = "create_department" -> "dept_commit"
      [] op = "get_departments"   -> "list_depts"
      [] op = "get_users"         -> "list_users"
      [] op = "add_salary"        -> "sal_check"
      [] op = "get_user_details"  -> "detail"

IssuedTokens == {i.tok : i \in issued}

\* the bearer tokens a client may present: none, text that is no JWT, a
\* token login returned, such a token with its payload altered, and a JWT
\* signed by the caller under the service's key or under another key
Tampered(t) ==
    {[t EXCEPT !.sub = s] : s \in (Usernames \cup {NoSub}) \ {t.sub}}
    \cup {[t EXCEPT !.exp = t.exp + ExpireSeconds]}
    \cup {[t EXCEPT !.sig = Sign(OtherKey, t.sub, t.exp)]}

Crafted ==
    {JwtEncode(s, e, SECRET_KEY) :
        s \in Usernames \cup {NoSub},
        e \in {now + ExpireSeconds * TicksPerSecond} \cup
              {x \in {now - TicksPerSecond} : x >= 0}}
    \cup {JwtEncode(s, now + ExpireSeconds * TicksPerSecond, OtherKey) :
            s \in Usernames}

Presentable ==
    {NoToken, Malformed} \cup IssuedTokens
    \cup UNION {Tampered(t) : t \in IssuedTokens} \cup Crafted

Init ==
    /\ departments = <<>>
    /\ users = <<>>
    /\ salaries = <<>>
    /\ now = 0
    /\ issued = {}
    /\ started = 0
    /\ pc = [r \in Req |-> "idle"]
    /\ rq = [r \in Req |-> NoRq]
    /\ token = [r \in Req |-> NoToken]
    /\ session = [r \in Req |-> "none"]
    /\ current_user = [r \in Req |-> NoSub]
    /\ held = [r \in Req |-> FALSE]
    /\ resp = [r \in Req |-> NoResp]

\* the clock advances
Tick ==
    /\ now < MaxNow
    /\ now' = now + 1
    /\ UNCHANGED <<departments, users, salaries, issued, started,
                   pc, rq, token, session, current_user, held, resp>>


(***************************************************************************)
(* A request arrives.  FastAPI resolves the handler's dependencies in      *)
(* order: oauth2_scheme reads the Authorization header (401 when it holds  *)
(* no bearer token, before get_db is ever called), get_db opens the        *)
(* session, then get_current_user runs.                                    *)
(***************************************************************************)
InFlight(op) == Cardinality({r \in Req : pc[r] # "idle" /\ pc[r] # "respond" /\ rq[r].op = op})

\* POST /register arrives
BeginRegister(r, u, p, d) ==
    /\ pc[r] = "idle"
    /\ started < MaxRequests
    /\ started' = started + 1
    /\ rq' = [rq EXCEPT ![r] = RegisterRq(u, p, d)]
    /\ held' = [held EXCEPT ![r] = UserByUsername(u) # {}]
    /\ session' = [session EXCEPT ![r] = "open"]
    /\ pc' = [pc EXCEPT ![r] = "reg_dept"]
    /\ UNCHANGED <<departments, users, salaries, now, issued, token, current_user, resp>>

\* POST /login arrives
BeginLogin(r, u, p) ==
    /\ pc[r] = "idle"
    /\ started < MaxRequests
    /\ started' = started + 1
    /\ rq' = [rq EXCEPT ![r] = LoginRq(u, p)]
    /\ session' = [session EXCEPT ![r] = "open"]
    /\ pc' = [pc EXCEPT ![r] = "login"]
    /\ UNCHANGED <<departments, users, salaries, now, issued, token, current_user, held, resp>>

\* a request for a protected operation arrives carrying token t
BeginProtected(r, q, t) ==
    /\ pc[r] = "idle"
    /\ started < MaxRequests
    /\ q.op = "create_department" =>
            Len(departments) + InFlight("create_department") < MaxDepartments
    /\ q.op = "add_salary" =>
            Len(salaries) + InFlight("add_salary") < MaxSalaries
    /\ started' = started + 1
    /\ rq' = [rq EXCEPT ![r] = q]
    /\ IF t.kind = "none"
       THEN /\ resp' = [resp EXCEPT ![r] = HTTPException(401, "Not authenticated")]
            /\ pc' = [pc EXCEPT ![r] = "respond"]
            /\ UNCHANGED <<token, session>>
       ELSE /\ token' = [token EXCEPT ![r] = t]
            /\ session' = [session EXCEPT ![r] = "open"]
            /\ pc' = [pc EXCEPT ![r] = "guard"]
            /\ UNCHANGED resp
    /\ UNCHANGED <<departments, users, salaries, now, issued, current_user, held>>

(***************************************************************************)
(* get_current_user (main.py:91-106).                                      *)
(***************************************************************************)
\* get_current_user without the user lookup of main.py:102-104
GuardResult_SkipLookup(tok) ==
    IF ~JwtDecodeOk(tok, SECRET_KEY, now) \/ tok.sub = NoSub
    THEN HTTPException(401, "Invalid token")
    ELSE Ok(<<[username |-> tok.sub]>>)

\* the guard's answer for token tok at this moment: the 401 it raises, or
\* Ok(<<user>>) when it returns the user
GuardResult(tok) ==
    IF ~JwtDecodeOk(tok, SECRET_KEY, now)
    THEN HTTPException(401, "Invalid token")            \* except JWTError
    ELSE IF tok.sub = NoSub
    THEN HTTPException(401, "Invalid token")            \* username is None
    ELSE IF UserByUsername(tok.sub) = {}
    THEN HTTPException(401, "User not found")
    ELSE Ok(<<CHOOSE u \in UserByUsername(tok.sub) : TRUE>>)

Guard(r) ==
    /\ pc[r] = "guard"
    /\ LET g == GuardResult(token[r])
       IN  IF g.status = 200
           THEN /\ current_user' = [current_user EXCEPT ![r] = g.body[1].username]
                /\ pc' = [pc EXCEPT ![r] = BodyPc(rq[r].op)]
                /\ UNCHANGED resp
           ELSE /\ resp' = [resp EXCEPT ![r] = g]
                /\ pc' = [pc EXCEPT ![r] = "respond"]
                /\ UNCHANGED current_user
    /\ token' = [token EXCEPT ![r] = NoToken]
    /\ UNCHANGED <<departments, users, salaries, now, issued, started, rq, session, held>>

(***************************************************************************)
(* register (main.py:149-176): one step per database round-trip.           *)
(***************************************************************************)
\* "if user.department_id:" and the department lookup
DepartmentMissing(d) == Truthy(d) /\ DepartmentById(d) = {}

RegDept(r) ==
    /\ pc[r] = "reg_dept"
    /\ IF DepartmentMissing(rq[r].department_id)
       THEN /\ resp' = [resp EXCEPT ![r] = HTTPException(400, "Department not found")]
            /\ pc' = [pc EXCEPT ![r] = "respond"]
       ELSE /\ pc' = [pc EXCEPT ![r] = "reg_user"]
            /\ UNCHANGED resp
    /\ UNCHANGED <<departments, users, salaries, now, issued, started,
                   rq, token, session, current_user, held>>

\* register without the username lookup of main.py:159-164
ExistingUser_Never(name) == FALSE

\* "existing_user = db.query(User).filter(User.username == ...).first()"
ExistingUser(name) == UserByUsername(name) # {}

RegUser(r) ==
    /\ pc[r] = "reg_user"
    /\ IF ExistingUser(rq[r].username)
       THEN /\ resp' = [resp EXCEPT ![r] = HTTPException(400, "Username already exists")]
            /\ pc' = [pc EXCEPT ![r] = "respond"]
       ELSE /\ pc' = [pc EXCEPT ![r] = "reg_commit"]
            /\ UNCHANGED resp
    /\ UNCHANGED <<departments, users, salaries, now, issued, started,
                   rq, token, session, current_user, held>>

\* users.username declared without unique=True
UniqueViolation_Never(name) == FALSE

\* users.username is unique=True: the INSERT of a second row with the
\* name raises IntegrityError.  (SQLite enforces no FOREIGN KEY unless
\* PRAGMA foreign_keys is set, and the engine never sets it.)
UniqueViolation(name) == UserByUsername(name) # {}

\* db.add(new_user); db.commit(); db.refresh(new_user)
RegCommit(r, salt) ==
    /\ pc[r] = "reg_commit"
    /\ IF UniqueViolation(rq[r].username)
       THEN /\ resp' = [resp EXCEPT ![r] = InternalServerError]
            /\ UNCHANGED users
       ELSE /\ users' = Append(users,
                    [id |-> Len(users) + 1,
                     username |-> rq[r].username,
                     hashed_password |-> hash_password(rq[r].password, salt),
                     department_id |-> rq[r].department_id])
            /\ resp' = [resp EXCEPT ![r] =
                    Ok(<<[message |-> "User registered successfully"]>>)]
    /\ pc' = [pc EXCEPT ![r] = "respond"]
    /\ UNCHANGED <<departments, salaries, now, issued, started,
                   rq, token, session, current_user, held>>

(***************************************************************************)
(* login (main.py:182-197).                                                *)
(***************************************************************************)
\* login that checks the username alone
BadCredentials_NoPassword(u, p) == UserByUsername(u) = {}

\* "not user or not verify_password(form_data.password, user.hashed_password)"
BadCredentials(u, p) ==
    \/ UserByUsername(u) = {}
    \/ \E usr \in UserByUsername(u) : ~verify_password(p, usr.hashed_password)

\* login that re-hashes the password it verified and stores the new hash
Login_Rehash(r) ==
    /\ pc[r] = "login"
    /\ IF BadCredentials(rq[r].username, rq[r].password)
       THEN /\ resp' = [resp EXCEPT ![r] = HTTPException(401, "Invalid credentials")]
            /\ UNCHANGED <<issued, users>>
       ELSE LET usr == CHOOSE x \in UserByUsername(rq[r].username) : TRUE
                tok == create_access_token(usr.username, now)
            IN  /\ resp' = [resp EXCEPT ![r] =
                        Ok(<<[access_token |-> tok, token_type |-> "bearer"]>>)]
                /\ issued' = issued \cup {[tok |-> tok, at |-> now]}
                /\ users' = [users EXCEPT ![usr.id].hashed_password =
                                hash_password(rq[r].password, "s2")]
    /\ pc' = [pc EXCEPT ![r] = "respond"]
    /\ UNCHANGED <<departments, salaries, now, started,
                   rq, token, session, current_user, held>>

Login(r) ==
    /\ pc[r] = "login"
    /\ IF BadCredentials(rq[r].username, rq[r].password)
       THEN /\ resp' = [resp EXCEPT ![r] = HTTPException(401, "Invalid credentials")]
            /\ UNCHANGED issued
       ELSE LET usr == CHOOSE x \in UserByUsername(rq[r].username) : TRUE
                tok == create_access_token(usr.username, now)
            IN  /\ resp' = [resp EXCEPT ![r] =
                        Ok(<<[access_token |-> tok, token_type |-> "bearer"]>>)]
                /\ issued' = issued \cup {[tok |-> tok, at |-> now]}
    /\ pc' = [pc EXCEPT ![r] = "respond"]
    /\ UNCHANGED <<departments, users, salaries, now, started,
                   rq, token, session, current_user, held>>


(***************************************************************************)
(* Departments and users (main.py:203-234).                                *)
(***************************************************************************)
\* create_department: db.add(new_dept); db.commit(); db.refresh(new_dept)
DeptCommit(r) ==
    /\ pc[r] = "dept_commit"
    /\ LET new_dept == [id |-> Len(departments) + 1,
                        name |-> rq[r].name,
                        location |-> rq[r].location]
       IN  /\ departments' = Append(departments, new_dept)
           /\ resp' = [resp EXCEPT ![r] = Ok(<<DepartmentResponse(new_dept)>>)]
    /\ pc' = [pc EXCEPT ![r] = "respond"]
    /\ UNCHANGED <<users, salaries, now, issued, started,
                   rq, token, session, current_user, held>>

\* get_departments: return db.query(Department).all()
ListDepts(r) ==
    /\ pc[r] = "list_depts"
    /\ resp' = [resp EXCEPT ![r] = Ok([i \in 1..Len(departments) |-> DepartmentResponse(departments[i])])]
    /\ pc' = [pc EXCEPT ![r] = "respond"]
    /\ UNCHANGED <<departments, users, salaries, now, issued, started,
                   rq, token, session, current_user, held>>

\* get_users: return db.query(User).all()
ListUsers(r) ==
    /\ pc[r] = "list_users"
    /\ resp' = [resp EXCEPT ![r] = Ok([i \in 1..Len(users) |-> UserResponse(users[i])])]
    /\ pc' = [pc EXCEPT ![r] = "respond"]
    /\ UNCHANGED <<departments, users, salaries, now, issued, started,
                   rq, token, session, current_user, held>>

(***************************************************************************)
(* Salaries (main.py:240-292).                                             *)
(***************************************************************************)
\* add_salary without the user lookup of main.py:245-250
SalaryUserMissing_Never(id) == FALSE

\* add_salary: "user = db.query(User).filter(User.id == ...).first()"
SalaryUserMissing(id) == UserById(id) = {}

SalCheck(r) ==
    /\ pc[r] = "sal_check"
    /\ IF SalaryUserMissing(rq[r].user_id)
       THEN /\ resp' = [resp EXCEPT ![r] = HTTPException(404, "User not found")]
            /\ pc' = [pc EXCEPT ![r] = "respond"]
       ELSE /\ pc' = [pc EXCEPT ![r] = "sal_commit"]
            /\ UNCHANGED resp
    /\ UNCHANGED <<departments, users, salaries, now, issued, started,
                   rq, token, session, current_user, held>>

\* Column(Date, default=date.today): the day of the clock
date_today(t) == Sec(t) \div SecondsPerDay

\* add_salary that replaces the table's rows with the new one
SalCommit_Replace(r) ==
    /\ pc[r] = "sal_commit"
    /\ salaries' = <<[id |-> Len(salaries) + 1,
                      user_id |-> rq[r].user_id,
                      amount |-> rq[r].amount,
                      effective_date |-> date_today(now)]>>
    /\ resp' = [resp EXCEPT ![r] = Ok(<<[message |-> "Salary added successfully"]>>)]
    /\ pc' = [pc EXCEPT ![r] = "respond"]
    /\ UNCHANGED <<departments, users, now, issued, started,
                   rq, token, session, current_user, held>>

\* add_salary: db.add(new_salary); db.commit(); db.refresh(new_salary)
SalCommit(r) ==
    /\ pc[r] = "sal_commit"
    /\ salaries' = Append(salaries,
            [id |-> Len(salaries) + 1,
             user_id |-> rq[r].user_id,
             amount |-> rq[r].amount,
             effective_date |-> date_today(now)])
    /\ resp' = [resp EXCEPT ![r] = Ok(<<[message |-> "Salary added successfully"]>>)]
    /\ pc' = [pc EXCEPT ![r] = "respond"]
    /\ UNCHANGED <<departments, users, now, issued, started,
                   rq, token, session, current_user, held>>

\* "user.department.name if user.department else None"
DepartmentName(u) ==
    IF u.department_id = Null \/ DepartmentById(u.department_id) = {}
    THEN NoneName
    ELSE (CHOOSE d \in DepartmentById(u.department_id) : TRUE).name

\* the salary query without its filter on user_id
SalaryHistory_All(id) ==
    [i \in 1..Len(salaries) |-> [amount |-> salaries[i].amount,
                                 effective_date |-> salaries[i].effective_date]]

\* db.query(Salary).filter(Salary.user_id == user_id).all(), as returned
SalaryHistory(id) ==
    LET F[i \in 0..Len(salaries)] ==
            IF i = 0 THEN <<>>
            ELSE IF salaries[i].user_id = id
                 THEN Append(F[i - 1], [amount |-> salaries[i].amount,
                                        effective_date |-> salaries[i].effective_date])
                 ELSE F[i - 1]
    IN  F[Len(salaries)]

\* get_user_details
Detail(r) ==
    /\ pc[r] = "detail"
    /\ IF UserById(rq[r].user_id) = {}
       THEN resp' = [resp EXCEPT ![r] = HTTPException(404, "User not found")]
       ELSE LET user == CHOOSE u \in UserById(rq[r].user_id) : TRUE
            IN  resp' = [resp EXCEPT ![r] =
                    Ok(<<[id |-> user.id,
                          username |-> user.username,
                          department |-> DepartmentName(user),
                          salary_history |-> SalaryHistory(rq[r].user_id)]>>)]
    /\ pc' = [pc EXCEPT ![r] = "respond"]
    /\ UNCHANGED <<departments, users, salaries, now, issued, started,
                   rq, token, session, current_user, held>>

(***************************************************************************)
(* The request ends: get_db's finally closes the session (main.py:27-32)   *)
(* and the response leaves.                                                *)
(***************************************************************************)
\* get_db without its finally: the response leaves, the session stays open
Finish_Leak(r) ==
    /\ pc[r] = "respond"
    /\ pc' = [pc EXCEPT ![r] = "idle"]
    /\ rq' = [rq EXCEPT ![r] = NoRq]
    /\ resp' = [resp EXCEPT ![r] = NoResp]
    /\ current_user' = [current_user EXCEPT ![r] = NoSub]
    /\ held' = [held EXCEPT ![r] = FALSE]
    /\ UNCHANGED <<departments, users, salaries, now, issued, started, token, session>>

Finish(r) ==
    /\ pc[r] = "respond"
    /\ pc' = [pc EXCEPT ![r] = "idle"]
    /\ session' = [session EXCEPT ![r] = "none"]
    /\ rq' = [rq EXCEPT ![r] = NoRq]
    /\ resp' = [resp EXCEPT ![r] = NoResp]
    /\ current_user' = [current_user EXCEPT ![r] = NoSub]
    /\ held' = [held EXCEPT ![r] = FALSE]
    /\ UNCHANGED <<departments, users, salaries, now, issued, started, token>>

Next ==
    \/ Tick
    \/ \E r \in Req, u \in Usernames, p \in RegPasswords, d \in DeptIdInputs :
            BeginRegister(r, u, p, d)
    \/ \E r \in Req, u \in Usernames, p \in Passwords : BeginLogin(r, u, p)
    \/ \E r \in Req, q \in ProtectedRqs, t \in Presentable : BeginProtected(r, q, t)
    \/ \E r \in Req : Guard(r)
    \/ \E r \in Req : RegDept(r)
    \/ \E r \in Req : RegUser(r)
    \/ \E r \in Req, salt \in Salts : RegCommit(r, salt)
    \/ \E r \in Req : Login(r)
    \/ \E r \in Req : DeptCommit(r)
    \/ \E r \in Req : ListDepts(r)
    \/ \E r \in Req : ListUsers(r)
    \/ \E r \in Req : SalCheck(r)
    \/ \E r \in Req : SalCommit(r)
    \/ \E r \in Req : Detail(r)
    \/ \E r \in Req : Finish(r)

Spec == Init /\ [][Next]_vars

(***************************************************************************)
(* Scheduling.  A request, once accepted, runs on a worker thread of the   *)
(* pool until its response is sent and get_db's generator is closed; no    *)
(* handler waits for another request.  So a request that can take its next *)
(* step eventually takes it.                                               *)
(***************************************************************************)
Step(r) ==
    \/ Guard(r)
    \/ RegDept(r)
    \/ RegUser(r)
    \/ \E salt \in Salts : RegCommit(r, salt)
    \/ Login(r)
    \/ DeptCommit(r)
    \/ ListDepts(r)
    \/ ListUsers(r)
    \/ SalCheck(r)
    \/ SalCommit(r)
    \/ Detail(r)
    \/ Finish(r)

FairSpec == Init /\ [][Next]_vars /\ \A r \in Req : WF_vars(Step(r))

(***************************************************************************)
(* The database is the file ./app.db (DATABASE_URL, main.py:17) and        *)
(* create_all (main.py:70) keeps the rows it finds, so the service may     *)
(* start over the rows an earlier run left: none, or a user registered     *)
(* without a department, the department that user created, and a second    *)
(* user registered into it.                                                *)
(***************************************************************************)
AppDb ==
    {[departments |-> <<>>, users |-> <<>>, salaries |-> <<>>],
     [departments |-> <<[id |-> 1, name |-> "eng", location |-> "hq"]>>,
      users |-> <<[id |-> 1, username |-> "alice",
                   hashed_password |-> hash_password("pw1", "s1"),
                   department_id |-> Null],
                  [id |-> 2, username |-> "bob",
                   hashed_password |-> hash_password("pw1", "s1"),
                   department_id |-> 1]>>,
      salaries |-> <<>>]}

InitRestart ==
    /\ \E db \in AppDb :
            /\ departments = db.departments
            /\ users = db.users
            /\ salaries = db.salaries
    /\ now = 0
    /\ issued = {}
    /\ started = 0
    /\ pc = [r \in Req |-> "idle"]
    /\ rq = [r \in Req |-> NoRq]
    /\ token = [r \in Req |-> NoToken]
    /\ session = [r \in Req |-> "none"]
    /\ current_user = [r \in Req |-> NoSub]
    /\ held = [r \in Req |-> FALSE]
    /\ resp = [r \in Req |-> NoResp]

SpecRestart == InitRestart /\ [][Next]_vars


(***************************************************************************)
(* Properties.                                                             *)
(***************************************************************************)
ProtectedOps == {"create_department", "get_departments", "get_users",
                 "add_salary", "get_user_details"}

\* the signature is the MAC of the token's own payload under the process secret
ValidlySigned(t) ==
    /\ t.kind = "jwt"
    /\ t.sig.key = SECRET_KEY
    /\ t.sig.sub = t.sub
    /\ t.sig.exp = t.exp

\* the payload's expiry lies before the clock's second
Expired(t) == t.exp # NoExp /\ t.exp < now \div TicksPerSecond

\* no user row carries the name
NoUserRow(name) == \A i \in 1..Len(users) : users[i].username # name

\* C1: a token that is malformed, wrongly signed, expired, without a
\* subject, or whose subject has no user row
C1_BadToken(t) ==
    \/ ~ValidlySigned(t)
    \/ Expired(t)
    \/ t.sub = NoSub
    \/ NoUserRow(t.sub)

\* C1: for every protected operation, a request whose token is missing,
\* malformed, wrongly signed, expired, without a subject or naming a subject
\* with no user row is answered 401 by the guard with no data, and from then
\* on the request only ends: its handler body never runs, no row is added.
C1_GuardShortCircuits ==
    [][\A r \in Req :
        /\ (pc[r] = "idle" /\ pc'[r] # "idle" /\ rq'[r].op \in ProtectedOps
                /\ token'[r].kind = "none")
            => /\ pc'[r] = "respond"
               /\ resp'[r].status = 401
               /\ resp'[r].body = <<>>
               /\ tables' = tables
        /\ (pc[r] = "guard" /\ pc'[r] # "guard" /\ C1_BadToken(token[r]))
            => /\ rq[r].op \in ProtectedOps
               /\ pc'[r] = "respond"
               /\ resp'[r].status = 401
               /\ resp'[r].body = <<>>
               /\ tables' = tables
        /\ (pc[r] = "respond" /\ resp[r].status = 401 /\ rq[r].op \in ProtectedOps)
            => /\ pc'[r] \in {"respond", "idle"}
               /\ pc'[r] = "respond" => resp'[r] = resp[r]
               /\ pc'[r] = "idle" => tables' = tables
      ]_vars

\* C1 witness: an add_salary request naming an existing user was turned away
\* by the guard, and no salary row exists
C1_Witness ==
    \E r \in Req :
        /\ pc[r] = "respond"
        /\ rq[r].op = "add_salary"
        /\ \E i \in 1..Len(users) : users[i].id = rq[r].user_id
        /\ resp[r].status = 401
        /\ resp[r].detail = "User not found"
        /\ salaries = <<>>

\* C2 as stated: a register call whose username was held by a persisted user
\* when it was made ends with 400 'Username already exists'.
C2_Original ==
    \A r \in Req :
        (pc[r] = "respond" /\ rq[r].op = "register" /\ held[r])
            => /\ resp[r].status = 400
               /\ resp[r].detail = "Username already exists"

\* C2 amended: a register call whose username was held by a persisted user
\* when it was made leaves the three tables as they were at every step and
\* ends with a 400 response: 'Department not found' when its department_id is
\* neither null nor 0 and names no department (that check runs first),
\* 'Username already exists' otherwise.
C2_DuplicateRegisterFails ==
    [][\A r \in Req :
        (rq[r].op = "register" /\ held[r] /\ pc'[r] # pc[r])
            => /\ tables' = tables
               /\ pc'[r] # "reg_commit"
               /\ (pc[r] # "respond" /\ pc'[r] = "respond") =>
                    LET d == rq[r].department_id
                        resolves == \E i \in 1..Len(departments) : departments[i].id = d
                    IN  /\ resp'[r].status = 400
                        /\ \/ /\ resp'[r].detail = "Department not found"
                              /\ d # Null /\ d # 0 /\ ~resolves
                           \/ /\ resp'[r].detail = "Username already exists"
                              /\ (d = Null \/ d = 0 \/ resolves)
      ]_vars

\* C2 witness: a second register for a held username got the Conflict response
C2_Witness ==
    \E r \in Req :
        /\ pc[r] = "respond"
        /\ rq[r].op = "register"
        /\ held[r]
        /\ resp[r].status = 400
        /\ resp[r].detail = "Username already exists"
        /\ Len(users) = 1

\* C3: no two persisted users have the same username, in every interleaving
\* of register requests whose check and commit are separate steps.
C3_UsernamesUnique ==
    \A i, j \in 1..Len(users) :
        i # j => users[i].username # users[j].username

\* C3 witness: two register requests for one username both passed the
\* existence check; one committed its row, the other's commit was refused
C3_Witness ==
    \E r1, r2 \in Req :
        /\ r1 # r2
        /\ rq[r1].op = "register" /\ rq[r2].op = "register"
        /\ rq[r1].username = rq[r2].username
        /\ ~held[r1] /\ ~held[r2]
        /\ pc[r1] = "respond" /\ resp[r1].status = 200
        /\ pc[r2] = "respond" /\ resp[r2].status = 500


\* C4 as stated: every persisted user's department_id is null or the id of
\* an existing department, and a register whose integer department_id (0 and
\* negative values included) resolves to no department ends with
\* 'Department not found' and persists no user.
C4_Claim ==
    /\ \A i \in 1..Len(users) :
            \/ users[i].department_id = Null
            \/ \E k \in 1..Len(departments) :
                    departments[k].id = users[i].department_id
    /\ \A r \in Req :
            (/\ pc[r] = "respond"
             /\ rq[r].op = "register"
             /\ rq[r].department_id # Null
             /\ \A k \in 1..Len(departments) :
                    departments[k].id # rq[r].department_id)
            => /\ resp[r].status = 400
               /\ resp[r].detail = "Department not found"

\* C5: every persisted salary's user_id is the id of an existing user; an
\* authenticated add_salary whose user_id resolves to no user ends with 404
\* 'User not found' and adds no row; a salary row is only ever inserted by a
\* request that is past its existence check, for a user that exists.
C5_SalaryOwnerExists ==
    [][/\ \A i \in 1..Len(salaries') :
            \E k \in 1..Len(users') : users'[k].id = salaries'[i].user_id
       /\ \A r \in Req :
            (/\ pc[r] = "sal_check"
             /\ pc'[r] # "sal_check"
             /\ \A k \in 1..Len(users) : users[k].id # rq[r].user_id)
            => /\ pc'[r] = "respond"
               /\ resp'[r].status = 404
               /\ resp'[r].detail = "User not found"
               /\ salaries' = salaries
       /\ salaries' # salaries
            => \E r \in Req :
                /\ pc[r] = "sal_commit"
                /\ pc'[r] = "respond"
                /\ \E k \in 1..Len(users) : users[k].id = rq[r].user_id
                /\ Len(salaries') = Len(salaries) + 1
                /\ salaries'[Len(salaries')].user_id = rq[r].user_id
                /\ \A i \in 1..Len(salaries) : salaries'[i] = salaries[i]
      ]_vars

\* C5 witness: an authenticated add_salary for a user id that does not exist
\* was answered 404
C5_Witness ==
    \E r \in Req :
        /\ pc[r] = "respond"
        /\ rq[r].op = "add_salary"
        /\ current_user[r] # NoSub
        /\ \A k \in 1..Len(users) : users[k].id # rq[r].user_id
        /\ resp[r].status = 404
        /\ Len(users) = 1

\* the moment a login token expires: issuance + ACCESS_TOKEN_EXPIRE_MINUTES
ExpiryTick(i) == i.at + ExpireSeconds * TicksPerSecond

\* the guard accepts the token and resolves it to user s
Accepts(tok, s) ==
    /\ GuardResult(tok).status = 200
    /\ GuardResult(tok).body[1].username = s

\* the guard rejects the token as InvalidToken
RejectsInvalid(tok) ==
    /\ GuardResult(tok).status = 401
    /\ GuardResult(tok).detail = "Invalid token"

\* C6 as stated: a token login issued for s is accepted and resolves to s at
\* every moment up to issuance + 30 minutes and rejected as InvalidToken at
\* every moment after it.
C6_Original ==
    \A i \in issued :
        /\ now <= ExpiryTick(i) => Accepts(i.tok, i.tok.sub)
        /\ now > ExpiryTick(i) => RejectsInvalid(i.tok)

\* C6 amended: a token login issued for s is accepted and resolves to s at
\* every moment up to the end of the whole second in which issuance + 30
\* minutes falls (so at every moment until its expiry), whatever ran in
\* between, and is rejected as InvalidToken at every moment after that second.
C6_TokenLifetime ==
    \A i \in issued :
        /\ i.tok.sub \in Usernames
        /\ now \div TicksPerSecond <= ExpiryTick(i) \div TicksPerSecond
                => Accepts(i.tok, i.tok.sub)
        /\ now \div TicksPerSecond > ExpiryTick(i) \div TicksPerSecond
                => RejectsInvalid(i.tok)

\* C6 witness: a token issued by login has outlived its second and the guard
\* rejects it, after another request ran
C6_Witness ==
    \E i \in issued :
        /\ now \div TicksPerSecond > ExpiryTick(i) \div TicksPerSecond
        /\ RejectsInvalid(i.tok)
        /\ started = MaxRequests

\* the password verifies against the stored hash of the user named u
C7_GoodCredentials(u, p) ==
    \E k \in 1..Len(users) :
        /\ users[k].username = u
        /\ verify_password(p, users[k].hashed_password)

\* C7: login answers 200 with a bearer token exactly when a user with the
\* username exists and the password verifies against that user's stored
\* hash, and the token is one signed under the process secret whose subject
\* is that username; otherwise it answers 401 'Invalid credentials' with no
\* token, and either way it leaves the tables alone and issues nothing else.
C7_Login ==
    [][\A r \in Req :
        (pc[r] = "login" /\ pc'[r] # "login")
            => /\ pc'[r] = "respond"
               /\ tables' = tables
               /\ IF C7_GoodCredentials(rq[r].username, rq[r].password)
                  THEN /\ resp'[r].status = 200
                       /\ Len(resp'[r].body) = 1
                       /\ resp'[r].body[1].token_type = "bearer"
                       /\ resp'[r].body[1].access_token.sub = rq[r].username
                       /\ ValidlySigned(resp'[r].body[1].access_token)
                       /\ issued' = issued \cup
                            {[tok |-> resp'[r].body[1].access_token, at |-> now]}
                  ELSE /\ resp'[r].status = 401
                       /\ resp'[r].detail = "Invalid credentials"
                       /\ resp'[r].body = <<>>
                       /\ issued' = issued
      ]_vars

\* C7 witness: a login with the wrong password for an existing user failed
\* after a login with the right one succeeded
C7_Witness ==
    \E r \in Req :
        /\ pc[r] = "respond"
        /\ rq[r].op = "login"
        /\ \E k \in 1..Len(users) : users[k].username = rq[r].username
        /\ resp[r].status = 401
        /\ \E i \in issued : i.tok.sub = rq[r].username


\* register(u, p) succeeded at some earlier moment: its row is stored
C8_Registered(u, p) ==
    \E k \in 1..Len(users) :
        /\ users[k].username = u
        /\ users[k].hashed_password = hash_password(p, users[k].hashed_password.salt)

\* C8: end to end.  Once register(u, p) has succeeded, every login(u, p)
\* returns a token for u; a GET /users carrying a token login issued, before
\* its expiry, passes the guard and its list holds every registered user, u
\* among them; a GET /users with no token is answered 401.
C8_EndToEnd ==
    [][\A r \in Req :
        /\ (pc[r] = "login" /\ pc'[r] # "login"
                /\ C8_Registered(rq[r].username, rq[r].password))
            => /\ resp'[r].status = 200
               /\ resp'[r].body[1].access_token.sub = rq[r].username
               /\ resp'[r].body[1].access_token \in {i.tok : i \in issued'}
        /\ (pc[r] = "guard" /\ pc'[r] # "guard" /\ rq[r].op = "get_users"
                /\ \E i \in issued : i.tok = token[r] /\ now <= ExpiryTick(i))
            => /\ pc'[r] = "list_users"
               /\ current_user'[r] = token[r].sub
        /\ (pc[r] = "list_users" /\ pc'[r] # "list_users")
            => /\ resp'[r].status = 200
               /\ Len(resp'[r].body) = Len(users)
               /\ \A k \in 1..Len(users) :
                    resp'[r].body[k].username = users[k].username
               /\ \E k \in 1..Len(users) :
                    resp'[r].body[k].username = current_user[r]
        /\ (pc[r] = "idle" /\ pc'[r] # "idle" /\ rq'[r].op = "get_users"
                /\ token'[r].kind = "none")
            => /\ pc'[r] = "respond"
               /\ resp'[r].status = 401
      ]_vars

\* C8 witness: a user who registered and logged in got the list of users,
\* with that user in it
C8_Witness ==
    \E r \in Req :
        /\ pc[r] = "respond"
        /\ rq[r].op = "get_users"
        /\ resp[r].status = 200
        /\ \E k \in 1..Len(resp[r].body) : resp[r].body[k].username = current_user[r]
        /\ \E i \in issued : i.tok.sub = current_user[r] /\ now <= ExpiryTick(i)

\* C9 as stated: the guard answers a validly signed, unexpired token whose
\* subject has no user row with the same status and the same detail as it
\* answers any invalid or expired token.
C9_Claim ==
    [][\A r \in Req :
        (/\ pc[r] = "guard" /\ pc'[r] # "guard"
         /\ ValidlySigned(token[r]) /\ ~Expired(token[r])
         /\ token[r].sub # NoSub /\ NoUserRow(token[r].sub))
        => \A t \in Presentable :
            (t.kind = "jwt" /\ (~ValidlySigned(t) \/ Expired(t)))
                => /\ resp'[r].status = GuardResult(t).status
                   /\ resp'[r].detail = GuardResult(t).detail
      ]_vars

\* C10: a token obtained from an issued one by changing its payload and
\* keeping its signature, or its signature and keeping its payload
C10_Altered(t) ==
    /\ t.kind = "jwt"
    /\ \E i \in IssuedTokens :
            /\ t # i
            /\ \/ t.sig = i.sig
               \/ t.sub = i.sub /\ t.exp = i.exp

\* C10: a token signed under a key that is not the process secret
C10_Forged(t) == t.kind = "jwt" /\ t.sig.key # SECRET_KEY

\* C10: the guard accepts only tokens whose signature is the one
\* create_access_token computes under the process secret: every tampered
\* token (an issued token with payload or signature changed) and every
\* forged token, also one naming an existing user, is rejected as
\* InvalidToken (401).
C10_TamperedRejected ==
    \A t \in Presentable :
        /\ (C10_Altered(t) \/ C10_Forged(t)) => RejectsInvalid(t)
        /\ GuardResult(t).status = 200 => ValidlySigned(t)

\* C10 witness: an issued token whose subject was changed to another
\* registered user, and a token forged under another key naming a registered
\* user, are both rejected while the issued token itself is accepted
C10_Witness ==
    \E i \in issued :
        /\ Accepts(i.tok, i.tok.sub)
        /\ \E t \in Tampered(i.tok) :
            /\ t.sub # i.tok.sub
            /\ ~NoUserRow(t.sub)
            /\ RejectsInvalid(t)
        /\ \E t \in Presentable :
            /\ C10_Forged(t)
            /\ ~NoUserRow(t.sub)
            /\ RejectsInvalid(t)

\* the fields a response body may carry, and those among them that hold text
C11_PublicFields == {"message", "access_token", "token_type", "id", "name",
                     "location", "username", "department_id", "department",
                     "salary_history"}
C11_TextFields == {"message", "token_type", "name", "location", "username",
                   "department"}

\* the hashes stored in users.hashed_password
C11_StoredHashes == {users[i].hashed_password : i \in 1..Len(users)}

\* C11: no response of any endpoint carries a plaintext password or a stored
\* hashed_password: a body element has none but the public fields, no text
\* in it (the error detail and the token's subject included) is a password,
\* the token is no stored hash, and a salary_history entry is an amount and a
\* date.
C11_NoPasswordInResponse ==
    \A r \in Req :
        /\ resp[r].detail \notin Passwords
        /\ \A k \in 1..Len(resp[r].body) :
            LET e == resp[r].body[k]
            IN  /\ DOMAIN e \subseteq C11_PublicFields
                /\ \A f \in DOMAIN e \cap C11_TextFields : e[f] \notin Passwords
                /\ "access_token" \in DOMAIN e
                    => /\ e.access_token \notin C11_StoredHashes
                       /\ DOMAIN e.access_token = {"kind", "sub", "exp", "sig"}
                       /\ e.access_token.sub \notin Passwords
                       /\ e.access_token.sig \notin C11_StoredHashes
                /\ "salary_history" \in DOMAIN e
                    => \A j \in 1..Len(e.salary_history) :
                        DOMAIN e.salary_history[j] = {"amount", "effective_date"}

\* C11 witness: GET /users answered with the list of the registered users,
\* whose rows hold a password hash
C11_Witness ==
    \E r \in Req :
        /\ pc[r] = "respond"
        /\ rq[r].op = "get_users"
        /\ resp[r].status = 200
        /\ Len(resp[r].body) >= 1
        /\ \A k \in 1..Len(users) :
            verify_password("pw1", users[k].hashed_password)

\* C12: entities are create-only.  Across every step, each department, user
\* and salary row that exists before the step exists unchanged, at the same
\* id, after it; the three tables only grow.
C12_CreateOnly ==
    [][/\ Len(departments') >= Len(departments)
       /\ \A i \in 1..Len(departments) : departments'[i] = departments[i]
       /\ Len(users') >= Len(users)
       /\ \A i \in 1..Len(users) : users'[i] = users[i]
       /\ Len(salaries') >= Len(salaries)
       /\ \A i \in 1..Len(salaries) : salaries'[i] = salaries[i]
      ]_vars

\* C12 witness: a second salary row was inserted while a user row and a
\* salary row existed
C12_Witness ==
    /\ Len(users) >= 1
    /\ Len(salaries) = 2
    /\ salaries[1].id = 1
    /\ salaries[2].id = 2

\* C13: an authenticated GET /users/{id} answers, for an id no user row
\* has, 404 'User not found'; for the id of an existing user, 200 with that
\* user's id and username, as department the name of the user's department,
\* or null when the user has none, and a salary_history holding, in the
\* order of insertion, exactly one entry (amount, effective_date) for each
\* salary row of that user and none for the rows of other users.  The
\* tables stay as they were.
C13_UserDetails ==
    [][\A r \in Req :
        (pc[r] = "detail" /\ pc'[r] # "detail")
            => LET id == rq[r].user_id
                   rows == {k \in 1..Len(users) : users[k].id = id}
                   mine == {i \in 1..Len(salaries) : salaries[i].user_id = id}
               IN  /\ current_user[r] # NoSub
                   /\ pc'[r] = "respond"
                   /\ tables' = tables
                   /\ IF rows = {}
                      THEN /\ resp'[r].status = 404
                           /\ resp'[r].detail = "User not found"
                           /\ resp'[r].body = <<>>
                      ELSE \E k \in rows :
                            /\ resp'[r].status = 200
                            /\ Len(resp'[r].body) = 1
                            /\ resp'[r].body[1].id = users[k].id
                            /\ resp'[r].body[1].username = users[k].username
                            /\ users[k].department_id = Null
                                => resp'[r].body[1].department = NoneName
                            /\ \A d \in 1..Len(departments) :
                                departments[d].id = users[k].department_id
                                => resp'[r].body[1].department = departments[d].name
                            /\ Len(resp'[r].body[1].salary_history) = Cardinality(mine)
                            /\ \A i \in mine :
                                resp'[r].body[1].salary_history[Cardinality({j \in mine : j <= i})]
                                    = [amount |-> salaries[i].amount,
                                       effective_date |-> salaries[i].effective_date]
      ]_vars

\* C13 witness: the details of a user who is in a department, returned with
\* the department's name and the user's one salary while another user's
\* salary is stored too
C13_Witness ==
    \E r \in Req :
        /\ pc[r] = "respond"
        /\ rq[r].op = "get_user_details"
        /\ resp[r].status = 200
        /\ resp[r].body[1].department = "eng"
        /\ Len(resp[r].body[1].salary_history) = 1
        /\ Len(salaries) = 2
        /\ \E i \in 1..Len(salaries) : salaries[i].user_id # rq[r].user_id

\* C14 as stated: every failure caused by a referenced department or user id
\* that does not exist (register answering that its department_id names no
\* department, an authenticated add_salary or GET /users/{id} whose user id
\* has no row) is reported as a NotFound, 404 response.
C14_Claim ==
    \A r \in Req :
        pc[r] = "respond" =>
            /\ (/\ rq[r].op = "register"
                /\ resp[r].detail = "Department not found")
                => resp[r].status = 404
            /\ (/\ rq[r].op \in {"add_salary", "get_user_details"}
                /\ current_user[r] # NoSub
                /\ \A k \in 1..Len(users) : users[k].id # rq[r].user_id)
                => resp[r].status = 404

\* C15 as stated: every register request that persists no row because its
\* username is already held by another user (its department check passed, a
\* row with its username exists, it did not succeed) ends with 400 'Username
\* already exists', also when the existence check and the commit of
\* concurrent requests interleave; none ends in an unhandled internal error.
C15_Claim ==
    \A r \in Req :
        (/\ pc[r] = "respond"
         /\ rq[r].op = "register"
         /\ resp[r].status # 200
         /\ resp[r].detail # "Department not found"
         /\ \E k \in 1..Len(users) : users[k].username = rq[r].username)
        => /\ resp[r].status = 400
           /\ resp[r].detail = "Username already exists"

\* C16: the session get_db opens for a request is closed once, when the
\* request ends, on every exit path: it is opened only as the request
\* starts, it stays open while the request runs, the one step that closes
\* it is the end of the request (whatever the response: 200, a 400/401/404
\* HTTPException of the guard or the handler, the 500 of an unhandled commit
\* error), no request ends with its session open, and every open session is
\* eventually closed.  (A request without a bearer token is turned away
\* before get_db runs and has no session.)
C16_SessionClosed ==
    /\ [][\A r \in Req :
            /\ (session[r] # "open" /\ session'[r] = "open")
                => pc[r] = "idle" /\ pc'[r] # "idle"
            /\ (session[r] = "open" /\ session'[r] # "open")
                => /\ pc[r] = "respond"
                   /\ resp[r].status \in {200, 400, 401, 404, 500}
                   /\ pc'[r] = "idle"
                   /\ session'[r] = "none"
            /\ pc'[r] = "idle" => session'[r] = "none"
            /\ (pc'[r] # "idle" /\ session'[r] # "open")
                => /\ pc'[r] = "respond"
                   /\ resp'[r] = HTTPException(401, "Not authenticated")
         ]_vars
    /\ \A r \in Req : (session[r] = "open") ~> (session[r] = "none")

\* C16 witness: a register request has ended and its session is closed,
\* while the request it raced with, whose commit failed with an unhandled
\* error, is about to end with its session still open
C16_Witness ==
    \E r1, r2 \in Req :
        /\ r1 # r2
        /\ pc[r1] = "idle"
        /\ session[r1] = "none"
        /\ started = 2
        /\ Len(users) = 1
        /\ pc[r2] = "respond"
        /\ rq[r2].op = "register"
        /\ resp[r2].status = 500
        /\ session[r2] = "open"

\* the operations that only read
C17_ReadOps == {"get_departments", "get_users", "get_user_details", "login"}

\* C17: every step of a GET /departments, GET /users, GET /users/{id} or
\* login request, from its arrival to its end and whatever its response,
\* leaves the departments, users and salaries tables as they were; so does
\* every run of the guard, for whatever operation, and a run of the guard
\* changes nothing the guard reads: in the state it leaves, the guard gives
\* every token the result it gave before.
C17_ReadOnly ==
    [][\A r \in Req :
        /\ (pc'[r] # pc[r] /\ (rq[r].op \in C17_ReadOps \/ rq'[r].op \in C17_ReadOps))
            => tables' = tables
        /\ (pc[r] = "guard" /\ pc'[r] # "guard")
            => /\ tables' = tables
               /\ \A t \in Presentable : GuardResult(t)' = GuardResult(t)
      ]_vars

\* C17 witness: the guard let a GET /users/{id} through, the handler failed
\* with 404, and the rows stored before are there, as is a token a
\* successful login issued
C17_Witness ==
    \E r \in Req :
        /\ pc[r] = "respond"
        /\ rq[r].op = "get_user_details"
        /\ current_user[r] # NoSub
        /\ resp[r].status = 404
        /\ Len(users) = 1
        /\ issued # {}

\* C18: the request's department_id is given and names no existing department
C18_BadDepartment(r) ==
    /\ rq[r].department_id # Null
    /\ \A k \in 1..Len(departments) : departments[k].id # rq[r].department_id

\* C18: the request's username is taken
C18_BadUsername(r) == \E k \in 1..Len(users) : users[k].username = rq[r].username

\* C18 as stated: register validates in a fixed order.  The department
\* check is its first step and the username check follows it, each failing
\* with its own response; a request with both a department_id that names
\* no existing department and an already-taken username fails at the first
\* check, with 'Department not found'; and a user row is inserted, holding
\* the hash of the request's password, only by a request past both checks.
C18_Claim ==
    [][\A r \in Req :
        /\ (pc[r] = "idle" /\ rq'[r].op = "register") => pc'[r] = "reg_dept"
        /\ (pc[r] = "reg_dept" /\ pc'[r] # "reg_dept")
            => /\ users' = users
               /\ pc'[r] \in {"reg_user", "respond"}
               /\ pc'[r] = "respond"
                    => /\ resp'[r].status = 400
                       /\ resp'[r].detail = "Department not found"
               /\ (C18_BadDepartment(r) /\ C18_BadUsername(r))
                    => pc'[r] = "respond"
        /\ (pc[r] = "reg_user" /\ pc'[r] # "reg_user")
            => /\ users' = users
               /\ pc'[r] \in {"reg_commit", "respond"}
               /\ pc'[r] = "respond"
                    => /\ resp'[r].status = 400
                       /\ resp'[r].detail = "Username already exists"
        /\ users' # users
            => \E q \in Req :
                /\ pc[q] = "reg_commit"
                /\ pc'[q] = "respond"
                /\ Len(users') = Len(users) + 1
                /\ users'[Len(users')].username = rq[q].username
                /\ verify_password(rq[q].password, users'[Len(users')].hashed_password)
      ]_vars

\* C19: in every reachable state the subject of every token login has
\* issued is the username of a persisted user; so the guard never answers
\* such a token 'User not found', and it stops accepting it only once the
\* token has expired.
C19_IssuedSubjectsPersist ==
    \A i \in issued :
        /\ \E k \in 1..Len(users) : users[k].username = i.tok.sub
        /\ GuardResult(i.tok).detail # "User not found"
        /\ GuardResult(i.tok).status # 200 => Expired(i.tok)
        /\ Expired(i.tok) => GuardResult(i.tok).status = 401

\* C19 witness: a token login issued has expired and the guard rejects it
\* as invalid, while its subject is still a persisted user and a second
\* user has registered
C19_Witness ==
    \E i \in issued :
        /\ Expired(i.tok)
        /\ GuardResult(i.tok) = HTTPException(401, "Invalid token")
        /\ \E k \in 1..Len(users) : users[k].username = i.tok.sub
        /\ Len(users) = 2

====
